---- MODULE Spec2Model ----
(***************************************************************************)
(* SignSynth Academy: the classroom/practice state machine of App.tsx,     *)
(* the progress store (useProgress), the AI gateway (aiService.ts) with    *)
(* the remote model as environment, and the webcam capture handle.         *)
(*                                                                         *)
(* Text is a sequence of one-character strings, so that toLowerCase,       *)
(* includes, trim, split and replace are computed character by character.  *)
(*                                                                         *)
(* One action is one browser event (click, key, speech result, timer, a    *)
(* promise settling) together with the React commit it causes and the      *)
(* effects that commit runs.  A handler reads the state of the render it   *)
(* closes over (the unprimed variables) and queues its writes in a record  *)
(* s; the continuation of an await reads what the call captured, which the *)
(* in-flight call record carries.                                          *)
(***************************************************************************)
EXTENDS Integers, Sequences, FiniteSets, TLC

(***************************************************************************)
(* Bounds of the model                                                     *)
(***************************************************************************)
\* events of the user and the devices (clicks, keys, speech results, interval
\* ticks, the camera being refused, the clock advancing) in one behaviour;
\* promises settling and timeouts firing are not counted
MaxUserEvents == 4
\* gateway calls (image, analysis, lesson) in flight at the same time
MaxInFlight == 3
\* readings of Date.now() are 0..MaxClock
MaxClock == 1
\* pending setTimeout callbacks that clear lastSpokenCommand
MaxTimers == 1
\* SpeechRecognition objects created in one behaviour
MaxRecognitions == 2
\* getUserMedia requests pending at the same time
MaxCameraRequests == 2

(***************************************************************************)
(* Text                                                                    *)
(***************************************************************************)
LowerChars == <<"a", "b", "c", "d", "e", "f", "g", "h", "i", "j", "k", "l", "m", "n", "o", "p", "q", "r", "s", "t", "u", "v", "w", "x", "y", "z">>
UpperChars == <<"A", "B", "C", "D", "E", "F", "G", "H", "I", "J", "K", "L", "M", "N", "O", "P", "Q", "R", "S", "T", "U", "V", "W", "X", "Y", "Z">>

EmptyText == <<>>

isUpperChar(c) == \E i \in 1..26 : UpperChars[i] = c
isLowerChar(c) == \E i \in 1..26 : LowerChars[i] = c
\* the character class [A-Za-z]
isAlpha(c) == isUpperChar(c) \/ isLowerChar(c)
\* the character class \s (the inputs use the space only)
isSpace(c) == c = " "

toLowerCaseChar(c) ==
    IF isUpperChar(c) THEN LowerChars[CHOOSE i \in 1..26 : UpperChars[i] = c] ELSE c
toUpperCaseChar(c) ==
    IF isLowerChar(c) THEN UpperChars[CHOOSE i \in 1..26 : LowerChars[i] = c] ELSE c

\* String.prototype.toLowerCase / toUpperCase
toLowerCase(s) == [i \in 1..Len(s) |-> toLowerCaseChar(s[i])]
toUpperCase(s) == [i \in 1..Len(s) |-> toUpperCaseChar(s[i])]

\* String.prototype.includes
includes(s, k) == \E i \in 0..(Len(s) - Len(k)) : SubSeq(s, i + 1, i + Len(k)) = k

\* String.prototype.trim
RECURSIVE trimStart(_)
trimStart(s) == IF s # <<>> /\ isSpace(Head(s)) THEN trimStart(Tail(s)) ELSE s
RECURSIVE trimEnd(_)
trimEnd(s) == IF s # <<>> /\ isSpace(s[Len(s)]) THEN trimEnd(SubSeq(s, 1, Len(s) - 1)) ELSE s
trim(s) == trimEnd(trimStart(s))

\* s.split(/\s+/) of a trimmed, non-empty string: the maximal runs of
\* non-space characters, in order
RECURSIVE splitWhitespace(_)
splitWhitespace(s) ==
    IF s = <<>> THEN <<>>
    ELSE IF \E i \in 1..Len(s) : isSpace(s[i])
         THEN LET i == CHOOSE j \in 1..Len(s) : isSpace(s[j]) /\ \A k \in 1..(j - 1) : ~isSpace(s[k])
              IN  <<SubSeq(s, 1, i - 1)>> \o splitWhitespace(trimStart(SubSeq(s, i, Len(s))))
         ELSE <<s>>

\* rawWord.replace(/[^A-Za-z]/g, '')
stripNonAlpha(s) == SelectSeq(s, isAlpha)

\* a string is truthy when it is not empty
truthyText(s) == s # EmptyText

(***************************************************************************)
(* types.ts, constants.ts                                                  *)
(***************************************************************************)
IDLE == "IDLE"
GENERATING_REF == "GENERATING_REF"
WAITING_FOR_USER == "WAITING_FOR_USER"
LISTENING == "LISTENING"
ANALYZING == "ANALYZING"
FEEDBACK == "FEEDBACK"
SUCCESS == "SUCCESS"
AppState == {IDLE, GENERATING_REF, WAITING_FOR_USER, LISTENING, ANALYZING, FEEDBACK, SUCCESS}

\* A prompt is the template that built it and the text put into it; the
\* kind "nonstring" is a truthy JSON value that is not a string.
Prompt(kind, arg) == [kind |-> kind, arg |-> arg]

\* Lesson (the description is display text and is left out)
Lesson(id, target, difficulty, prompt) ==
    [id |-> id, target |-> target, difficulty |-> difficulty, prompt |-> prompt]

ALPHABET_LESSONS ==
    << Lesson(<<"A">>, <<"A">>, "Beginner", Prompt("letter", <<"A">>)),
       Lesson(<<"B">>, <<"B">>, "Beginner", Prompt("letter", <<"B">>)),
       Lesson(<<"C">>, <<"C">>, "Beginner", Prompt("letter", <<"C">>)) >>

INITIAL_PROGRESS == [xp |-> 0, level |-> "Beginner", streakDays |-> 1, learnedSigns |-> <<>>]

\* XP awarded by performAnalysis on success
XP_REWARD == 50

\* JSON values: null, and objects with the FeedbackResponse fields, each of
\* which may be missing ("undefined")
Null == [json |-> "null"]
\* what JSON.parse throws on text that is not JSON
SyntaxError == [json |-> "SyntaxError"]
Message(tpl, arg) == [tpl |-> tpl, arg |-> arg]
Undefined == Message("undefined", <<>>)
FeedbackResponse(success, message, correctionPrompt) ==
    [json |-> "object", success |-> success, message |-> message,
     correctionPrompt |-> correctionPrompt]
\* the success field is "true", "false" or "undefined"; its truthiness
truthy(v) == v = "true"

(***************************************************************************)
(* services/aiService.ts.  The remote model is the environment: a call to  *)
(* it throws or returns a response, whose text is any of the strings       *)
(* below.                                                                  *)
(***************************************************************************)
\* what ai.models.generateContent does for the analysis request: "throw",
\* or a response with this text
AnalysisResponses ==
    {"throw", "", "not json", "null", "{success:true,message}", "{success:false,message}"}
\* ... for the image request: "throw", a response without inlineData, or a
\* response with an image part
ImageResponses == {"throw", "no image", "image"}
\* ... for the lesson request
LessonResponses ==
    {"throw", "", "not json", "null", "{target:'B',prompt:'...'}", "{target:'B',prompt:7}"}

\* the mock fallback's critique pool (errors[0..2]); only the first names
\* the target
CritiqueMessage(target, k) ==
    CASE k = 0 -> Message("thumb tucked too tight", target)
      [] k = 1 -> Message("fingers need to be straighter", EmptyText)
      [] OTHER -> Message("rotate your wrist", EmptyText)

\* the mock fallback testing the random draw before the spoken question
analyzeHandShapeMockDrawingFirst(target, spokenQuestion, isSuccess, k) ==
    IF isSuccess
    THEN FeedbackResponse("true", Message("Excellent", target), "undefined")
    ELSE IF truthyText(spokenQuestion)
         THEN FeedbackResponse("false", Message("I heard you ask", spokenQuestion), "set")
         ELSE FeedbackResponse("false", CritiqueMessage(target, k), "set")

\* the catch block of analyzeHandShape: isSuccess is Math.random() > 0.4,
\* k is Math.floor(Math.random() * errors.length)
analyzeHandShapeMock(target, spokenQuestion, isSuccess, k) ==
    IF truthyText(spokenQuestion)
    THEN FeedbackResponse("false", Message("I heard you ask", spokenQuestion), "set")
    ELSE IF isSuccess
         THEN FeedbackResponse("true", Message("Excellent", target), "undefined")
         ELSE FeedbackResponse("false", CritiqueMessage(target, k), "set")

\* JSON.parse(text) for the texts the analysis request can return
parseFeedback(text, target) ==
    CASE text = "{success:true,message}" ->
             FeedbackResponse("true", Message("remote", target), "undefined")
      [] text = "{success:false,message}" ->
             FeedbackResponse("false", Message("remote", target), "set")
      [] text = "{}" -> FeedbackResponse("undefined", Undefined, "undefined")
      [] text = "null" -> Null
      [] OTHER -> SyntaxError

\* analyzeHandShape: the value its promise resolves with.  It never
\* rejects: nothing in the catch block throws.
analyzeHandShape(ai, target, spokenQuestion, response, isSuccess, k) ==
    IF ~ai \/ response = "throw"
    THEN analyzeHandShapeMock(target, spokenQuestion, isSuccess, k)
    ELSE LET text == IF response = "" THEN "{}" ELSE response
         IN  IF parseFeedback(text, target) = SyntaxError
             THEN analyzeHandShapeMock(target, spokenQuestion, isSuccess, k)
             ELSE parseFeedback(text, target)

\* image references
NoImage == [img |-> "null", of |-> Prompt("none", EmptyText)]
GeneratedImage(prompt) == [img |-> "data:image/png;base64", of |-> prompt]
\* prompt.match(/ASL letter ([A-Z])/i): the letter templates put the letter
\* right after "ASL letter "; no other template contains that phrase
PlaceholderImage(prompt) ==
    [img |-> "https://placehold.co",
     of |-> IF prompt.kind = "letter" /\ prompt.arg # EmptyText /\ isAlpha(prompt.arg[1])
            THEN Prompt("letter", <<toUpperCaseChar(prompt.arg[1])>>)
            ELSE Prompt("Sign", EmptyText)]

\* generateReferenceImage: [settled |-> "resolved", value |-> image] or
\* [settled |-> "rejected"].  In the catch block prompt.match is a
\* TypeError when the prompt is not a string.
generateReferenceImage(ai, prompt, response) ==
    IF ai /\ response = "image"
    THEN [settled |-> "resolved", value |-> GeneratedImage(prompt)]
    ELSE IF prompt.kind = "nonstring"
         THEN [settled |-> "rejected", value |-> NoImage]
         ELSE [settled |-> "resolved", value |-> PlaceholderImage(prompt)]

Unknown == <<"U", "n", "k", "n", "o", "w", "n">>
CustomSign == <<"C", "u", "s", "t", "o", "m", " ", "S", "i", "g", "n">>

\* createLessonFromIntent: the lesson its promise resolves with; the id is
\* `dyn-${Date.now()}` on both paths.  It never rejects.
createLessonFromIntent(ai, userVoicePrompt, response, dateNow) ==
    LET text == IF response = "" THEN "{}" ELSE response
        fallback == Lesson(<<"dyn", dateNow>>, CustomSign, "Beginner",
                           Prompt("alphabet", EmptyText))
    IN  IF ~ai \/ response = "throw" THEN fallback
        ELSE CASE text = "{}" ->
                      Lesson(<<"dyn", dateNow>>, Unknown, "Beginner",
                             Prompt("signing", EmptyText))
               [] text = "{target:'B',prompt:'...'}" ->
                      Lesson(<<"dyn", dateNow>>, <<"B">>, "Beginner",
                             Prompt("remote", <<"B">>))
               [] text = "{target:'B',prompt:7}" ->
                      Lesson(<<"dyn", dateNow>>, <<"B">>, "Beginner",
                             Prompt("nonstring", EmptyText))
               \* "not json": JSON.parse throws; "null": data.target throws
               [] OTHER -> fallback

(***************************************************************************)
(* hooks/useProgress                                                       *)
(***************************************************************************)
\* Array.prototype.includes on learnedSigns
learned(p, sign) == \E i \in 1..Len(p.learnedSigns) : p.learnedSigns[i] = sign

\* addXP taking the amount away
addXPSubtracting(p, amount) == [p EXCEPT !.xp = p.xp - amount]

addXP(p, amount) == [p EXCEPT !.xp = p.xp + amount]

\* markLearned without the includes test
markLearnedAlwaysAppending(p, sign) ==
    [p EXCEPT !.learnedSigns = Append(p.learnedSigns, sign)]

markLearned(p, sign) ==
    IF learned(p, sign) THEN p
    ELSE [p EXCEPT !.learnedSigns = Append(p.learnedSigns, sign)]

\* one call of the hook: addXP(amount) or markLearned(sign)
AddXPCall(amount) == [op |-> "addXP", amount |-> amount]
MarkLearnedCall(sign) == [op |-> "markLearned", sign |-> sign]
applyCall(p, call) ==
    IF call.op = "addXP" THEN addXP(p, call.amount) ELSE markLearned(p, call.sign)

\* every call computing its update from the rendered record: the last wins
applyUpdatersToRendered(p, calls) ==
    IF calls = << >> THEN p ELSE applyCall(p, calls[Len(calls)])

\* the calls issued before the next render: both functions pass an updater
\* to setProgress, and React applies the queued updaters in order, each to
\* the result of the one before
RECURSIVE applyUpdaters(_, _)
applyUpdaters(p, calls) ==
    IF calls = << >> THEN p
    ELSE applyUpdaters(applyCall(p, Head(calls)), Tail(calls))

(***************************************************************************)
(* State: the useState cells of App, useProgress and WebcamView, the       *)
(* gateway calls in flight, the clock and the API key                      *)
(***************************************************************************)
VARIABLES
    activeTab,            \* 'classroom' | 'practice'
    currentLesson,
    lessonQueue,
    appState,
    refImage,
    feedback,
    isAutoMode,
    isMicOn,
    lastSpokenCommand,
    customSentence,
    practiceInput,
    practiceImage,
    isPracticeGenerating,
    progress,             \* useProgress
    streamError,          \* WebcamView: getUserMedia was refused
    cameraRequests,       \* WebcamView: getUserMedia calls pending
    heldStream,           \* WebcamView: the mounted effect's stream is live
    leakedStreams,        \* live streams no cleanup will stop
    animationFrames,      \* WebcamView: scheduled draw callbacks of the overlay
    autoCheckInterval,    \* the setInterval of the auto-check effect exists
    recognitions,         \* the SpeechRecognition objects created so far
    storage,              \* localStorage item 'signsynth-progress'
    app,                  \* the React root: "unmounted", "mounted", "crashed"
    speechRecognition,    \* window.SpeechRecognition exists
    speechSynthesis,      \* window.speechSynthesis exists
    imageCalls,           \* generateReferenceImage calls in flight
    analysisCalls,        \* analyzeHandShape calls in flight
    lessonCalls,          \* createLessonFromIntent calls in flight
    timers,               \* pending setTimeout(() => setLastSpokenCommand(null))
    now,                  \* Date.now()
    ai,                   \* the client exists (process.env.API_KEY is set)
    userEvents,           \* events of the user and the devices so far
    lastEvent             \* the event whose handler or continuation ran last

vars == << activeTab, currentLesson, lessonQueue, appState, refImage, feedback,
           isAutoMode, isMicOn, lastSpokenCommand, customSentence, practiceInput,
           practiceImage, isPracticeGenerating, progress, streamError,
           cameraRequests, heldStream, leakedStreams, animationFrames, autoCheckInterval,
           recognitions, storage, app, speechRecognition, speechSynthesis,
           imageCalls, analysisCalls, lessonCalls, timers, now, ai,
           userEvents, lastEvent >>

\* lastSpokenCommand = null
NoCommand == <<"null">>

\* The state of the current render, as the handlers of this render see it.
\* A handler's writes are applied to a copy of it.
Render ==
    [ activeTab |-> activeTab, currentLesson |-> currentLesson,
      lessonQueue |-> lessonQueue, appState |-> appState, refImage |-> refImage,
      feedback |-> feedback, isAutoMode |-> isAutoMode, isMicOn |-> isMicOn,
      lastSpokenCommand |-> lastSpokenCommand, customSentence |-> customSentence,
      practiceInput |-> practiceInput, practiceImage |-> practiceImage,
      isPracticeGenerating |-> isPracticeGenerating, progress |-> progress,
      streamError |-> streamError,
      cameraRequests |-> cameraRequests, heldStream |-> heldStream,
      leakedStreams |-> leakedStreams, animationFrames |-> animationFrames, autoCheckInterval |-> autoCheckInterval,
      recognitions |-> recognitions, storage |-> storage, app |-> app,
      imageCalls |-> imageCalls, analysisCalls |-> analysisCalls,
      lessonCalls |-> lessonCalls, timers |-> timers ]

\* Sequence without its i-th element
RemoveAt(q, i) == SubSeq(q, 1, i - 1) \o SubSeq(q, i + 1, Len(q))

\* the message objects App builds itself: { success: false, message }
AppMessage(tpl, arg) == FeedbackResponse("false", Message(tpl, arg), "undefined")

(***************************************************************************)
(* App.tsx: handlers.  Each takes the pending writes s and returns them    *)
(* with its own writes added; reads of state go to the current render.     *)
(***************************************************************************)
\* handleTabChange leaving the classroom tools as they are
handleTabChangeKeepingTools(s, tab) == [s EXCEPT !.activeTab = tab]

handleTabChange(s, tab) ==
    IF tab = "practice"
    THEN [s EXCEPT !.activeTab = tab, !.isMicOn = FALSE, !.isAutoMode = FALSE]
    ELSE [s EXCEPT !.activeTab = tab]

\* loadLesson without its setFeedback(null)
loadLessonKeepingFeedback(s, lesson) ==
    [s EXCEPT !.currentLesson = lesson,
              !.appState = GENERATING_REF,
              !.imageCalls = Append(@, [prompt |-> lesson.prompt, from |-> "loadLesson"])]

\* loadLesson up to its await: the three writes and the request
loadLesson(s, lesson) ==
    [s EXCEPT !.currentLesson = lesson,
              !.appState = GENERATING_REF,
              !.feedback = Null,
              !.imageCalls = Append(@, [prompt |-> lesson.prompt, from |-> "loadLesson"])]

\* webcamRef.current?.getScreenshot(): null when the video element is not
\* mounted (practice tab, or the "Camera access required" panel of a stream
\* error).  Otherwise a canvas of videoWidth x videoHeight is drawn and
\* encoded: with a stream the JPEG data URL of the frame; without one the
\* canvas is 0 x 0 and toDataURL gives "data:,".
getScreenshot ==
    IF activeTab # "classroom" \/ streamError THEN "null"
    ELSE IF heldStream THEN "data:image/jpeg;base64"
    ELSE "data:,"
\* if (imageSrc): any non-empty string is truthy
hasScreenshot == getScreenshot # "null"

\* performAnalysis whose guard tests ANALYZING only
performAnalysisGuardingAnalyzingOnly(s, spokenText) ==
    IF appState = ANALYZING THEN s
    ELSE [s EXCEPT !.appState = ANALYZING,
                   !.feedback = Null,
                   !.analysisCalls = Append(@, [currentLesson |-> currentLesson,
                                                target |-> currentLesson.target,
                                                spokenQuestion |-> spokenText])]

\* performAnalysis up to its await.  The call record keeps what the
\* continuation closes over: the lesson of the render that submitted.
performAnalysis(s, spokenText) ==
    IF appState = ANALYZING \/ appState = GENERATING_REF THEN s
    ELSE [s EXCEPT !.appState = ANALYZING,
                   !.feedback = Null,
                   !.analysisCalls = Append(@, [currentLesson |-> currentLesson,
                                                target |-> currentLesson.target,
                                                spokenQuestion |-> spokenText])]

handleCapture(s) ==
    IF appState # WAITING_FOR_USER /\ appState # FEEDBACK /\ appState # SUCCESS THEN s
    ELSE IF hasScreenshot THEN performAnalysis(s, EmptyText) ELSE s

\* lessonQueue.findIndex(l => l.id === id), 0-based, -1 when absent
findIndex(queue, id) ==
    IF \E i \in 1..Len(queue) : queue[i].id = id
    THEN (CHOOSE i \in 1..Len(queue) :
              queue[i].id = id /\ \A j \in 1..(i - 1) : queue[j].id # id) - 1
    ELSE -1

handleNext(s) ==
    LET idx == findIndex(lessonQueue, currentLesson.id)
        nextIndex == (idx + 1) % Len(lessonQueue)
    IN  loadLesson(s, lessonQueue[nextIndex + 1])

handlePrevious(s) ==
    LET idx == findIndex(lessonQueue, currentLesson.id)
        prevIndex == idx - 1
    IN  IF prevIndex >= 0 THEN loadLesson(s, lessonQueue[prevIndex + 1]) ELSE s

handleRefreshImage(s) == loadLesson(s, currentLesson)

handleRetry(s) == [s EXCEPT !.appState = WAITING_FOR_USER, !.feedback = Null]

\* the keyword lists of processVoiceCommand's four if statements
NextKeywords == { <<"n", "e", "x", "t", " ", "l", "e", "s", "s", "o", "n">>,
                  <<"m", "o", "v", "e", " ", "t", "o", " ", "n", "e", "x", "t">>,
                  <<"s", "k", "i", "p">> }
PreviousKeywords == { <<"p", "r", "e", "v", "i", "o", "u", "s", " ", "l", "e", "s", "s", "o", "n">>,
                      <<"g", "o", " ", "b", "a", "c", "k">> }
RepeatKeywords == { <<"a", "g", "a", "i", "n">>,
                    <<"r", "e", "p", "e", "a", "t">>,
                    <<"r", "e", "s", "t", "a", "r", "t">> }
TeachKeywords == { <<"h", "o", "w", " ", "t", "o">>,
                   <<"s", "h", "o", "w", " ", "m", "e">>,
                   <<"t", "e", "a", "c", "h", " ", "m", "e">> }

includesAny(lower, keywords) == \E k \in keywords : includes(lower, k)

\* processVoiceCommand with the teach test moved before the repeat test
voiceBranchTeachBeforeRepeat(transcript) ==
    LET lower == toLowerCase(transcript)
    IN  IF includesAny(lower, NextKeywords) THEN "handleNext"
        ELSE IF includesAny(lower, PreviousKeywords) THEN "handlePrevious"
        ELSE IF includesAny(lower, TeachKeywords) THEN "createLessonFromIntent"
        ELSE IF includesAny(lower, RepeatKeywords) THEN "loadLesson"
        ELSE "performAnalysis"

\* processVoiceCommand matching the transcript as spoken, not lower-cased
voiceBranchCaseSensitive(transcript) ==
    IF includesAny(transcript, NextKeywords) THEN "handleNext"
    ELSE IF includesAny(transcript, PreviousKeywords) THEN "handlePrevious"
    ELSE IF includesAny(transcript, RepeatKeywords) THEN "loadLesson"
    ELSE IF includesAny(transcript, TeachKeywords) THEN "createLessonFromIntent"
    ELSE "performAnalysis"

\* which branch of processVoiceCommand a transcript takes
voiceBranch(transcript) ==
    LET lower == toLowerCase(transcript)
    IN  IF includesAny(lower, NextKeywords) THEN "handleNext"
        ELSE IF includesAny(lower, PreviousKeywords) THEN "handlePrevious"
        ELSE IF includesAny(lower, RepeatKeywords) THEN "loadLesson"
        ELSE IF includesAny(lower, TeachKeywords) THEN "createLessonFromIntent"
        ELSE "performAnalysis"

\* processVoiceCommand up to its first await
processVoiceCommand(s, transcript) ==
    LET s1 == [s EXCEPT !.lastSpokenCommand = transcript, !.timers = @ + 1]
        branch == voiceBranch(transcript)
    IN  CASE branch = "handleNext" -> handleNext(s1)
          [] branch = "handlePrevious" -> handlePrevious(s1)
          [] branch = "loadLesson" -> loadLesson(s1, currentLesson)
          [] branch = "createLessonFromIntent" ->
                 [s1 EXCEPT !.appState = GENERATING_REF,
                            !.feedback = AppMessage("Creating lesson for", transcript),
                            !.lessonCalls = Append(@, [userVoicePrompt |-> transcript])]
          [] OTHER -> IF hasScreenshot THEN performAnalysis(s1, transcript) ELSE s1

\* the lesson handleSentenceSubmit builds for rawWords[index] (0-based),
\* or NoLesson (null) when nothing alphabetic is left of the word
NoLesson == Lesson(<<"null">>, EmptyText, "null", Prompt("none", EmptyText))
\* sentenceLesson classifying by the length of the raw word
sentenceLessonCountingRawLength(rawWord, index, dateNow) ==
    LET word == toUpperCase(stripNonAlpha(rawWord))
        isWord == Len(rawWord) > 1
    IN  IF word = EmptyText THEN NoLesson
        ELSE Lesson(<<"seq", dateNow, index>>, word,
                    IF isWord THEN "Intermediate" ELSE "Beginner",
                    IF isWord THEN Prompt("word", word) ELSE Prompt("letter", word))

sentenceLesson(rawWord, index, dateNow) ==
    LET word == toUpperCase(stripNonAlpha(rawWord))
        isWord == Len(word) > 1
    IN  IF word = EmptyText THEN NoLesson
        ELSE Lesson(<<"seq", dateNow, index>>, word,
                    IF isWord THEN "Intermediate" ELSE "Beginner",
                    IF isWord THEN Prompt("word", word) ELSE Prompt("letter", word))

\* rawWords.map(...).filter(Boolean)
sentenceLessons(sentence, dateNow) ==
    LET rawWords == splitWhitespace(trim(sentence))
        mapped == [i \in 1..Len(rawWords) |-> sentenceLesson(rawWords[i], i - 1, dateNow)]
    IN  SelectSeq(mapped, LAMBDA l : l # NoLesson)

\* handleSentenceSubmit adding the new lessons after the old queue
handleSentenceSubmitAppending(s, sentence) ==
    IF ~truthyText(trim(sentence)) THEN s
    ELSE LET newLessons == sentenceLessons(sentence, now)
         IN  IF Len(newLessons) = 0 THEN s
             ELSE LET s1 == [s EXCEPT !.lessonQueue = @ \o newLessons]
                      s2 == loadLesson(s1, newLessons[1])
                  IN  [s2 EXCEPT !.customSentence = EmptyText,
                                 !.feedback = AppMessage("Queue updated", newLessons[1].target)]

\* handleSentenceSubmit replacing the queue before the empty check
handleSentenceSubmitReplacingQueueFirst(s, sentence) ==
    IF ~truthyText(trim(sentence)) THEN s
    ELSE LET newLessons == sentenceLessons(sentence, now)
             s1 == [s EXCEPT !.lessonQueue = newLessons]
         IN  IF Len(newLessons) = 0 THEN s1
             ELSE LET s2 == loadLesson(s1, newLessons[1])
                  IN  [s2 EXCEPT !.customSentence = EmptyText,
                                 !.feedback = AppMessage("Queue updated", newLessons[1].target)]

\* handleSentenceSubmit in a render whose customSentence is sentence
handleSentenceSubmit(s, sentence) ==
    IF ~truthyText(trim(sentence)) THEN s
    ELSE LET newLessons == sentenceLessons(sentence, now)
         IN  IF Len(newLessons) = 0 THEN s
             ELSE LET s1 == [s EXCEPT !.lessonQueue = newLessons]
                      s2 == loadLesson(s1, newLessons[1])
                  IN  [s2 EXCEPT !.customSentence = EmptyText,
                                 !.feedback = AppMessage("Queue updated", newLessons[1].target)]

\* handlePracticeGenerate up to its await, in a render whose practiceInput
\* is input
handlePracticeGenerate(s, input) ==
    IF ~truthyText(trim(input)) THEN s
    ELSE [s EXCEPT !.isPracticeGenerating = TRUE,
                   !.practiceImage = NoImage,
                   !.imageCalls = Append(@, [prompt |-> Prompt("practice 16:9", input),
                                             from |-> "handlePracticeGenerate"])]

handlePracticeInClassroom(s) ==
    IF practiceImage = NoImage \/ ~truthyText(practiceInput) THEN s
    ELSE LET customLesson == Lesson(<<"practice", now>>, practiceInput, "Conversational",
                                    Prompt("practice", practiceInput))
             s1 == [s EXCEPT !.currentLesson = customLesson,
                             !.refImage = practiceImage,
                             !.lessonQueue = <<customLesson>> \o @,
                             !.appState = WAITING_FOR_USER,
                             !.feedback = AppMessage("Great! Let's master", practiceInput)]
         IN  handleTabChange(s1, "classroom")

(***************************************************************************)
(* App.tsx: what runs after an await                                       *)
(***************************************************************************)
\* loadLesson after generateReferenceImage settled
loadLessonSettled(s, outcome) ==
    IF outcome.settled = "resolved"
    THEN [s EXCEPT !.refImage = outcome.value, !.appState = WAITING_FOR_USER]
    ELSE [s EXCEPT !.appState = IDLE]

\* performAnalysis awarding XP only for a sign not learned before
performAnalysisSettledAwardingNewSignsOnly(s, target, result) ==
    LET s1 == [s EXCEPT !.feedback = result]
    IN  IF result = Null THEN [s1 EXCEPT !.appState = WAITING_FOR_USER]
        ELSE IF truthy(result.success)
             THEN [s1 EXCEPT !.appState = SUCCESS,
                             !.progress = IF learned(@, target) THEN @
                                          ELSE markLearned(addXP(@, XP_REWARD), target)]
             ELSE [s1 EXCEPT !.appState = FEEDBACK]

\* performAnalysis whose catch block leaves the state at FEEDBACK
performAnalysisSettledCatchingIntoFeedback(s, target, result) ==
    LET s1 == [s EXCEPT !.feedback = result]
    IN  IF result = Null THEN [s1 EXCEPT !.appState = FEEDBACK]
        ELSE IF truthy(result.success)
             THEN [s1 EXCEPT !.appState = SUCCESS,
                             !.progress = markLearned(addXP(@, XP_REWARD), target)]
             ELSE [s1 EXCEPT !.appState = FEEDBACK]

\* performAnalysis after analyzeHandShape resolved with result, for the call
\* that captured target.  Reading result.success of null throws inside the
\* try block, after setFeedback(result).
performAnalysisSettled(s, target, result) ==
    LET s1 == [s EXCEPT !.feedback = result]
    IN  IF result = Null THEN [s1 EXCEPT !.appState = WAITING_FOR_USER]
        ELSE IF truthy(result.success)
             THEN [s1 EXCEPT !.appState = SUCCESS,
                             !.progress = markLearned(addXP(@, XP_REWARD), target)]
             ELSE [s1 EXCEPT !.appState = FEEDBACK]

\* processVoiceCommand after createLessonFromIntent resolved
teachIntentSettled(s, newLesson) ==
    loadLesson([s EXCEPT !.lessonQueue = Append(@, newLesson)], newLesson)

\* handlePracticeGenerate after generateReferenceImage settled
handlePracticeGenerateSettled(s, outcome) ==
    IF outcome.settled = "resolved"
    THEN [s EXCEPT !.practiceImage = outcome.value, !.isPracticeGenerating = FALSE]
    ELSE [s EXCEPT !.isPracticeGenerating = FALSE]

(***************************************************************************)
(* The effects a commit runs                                               *)
(***************************************************************************)
\* useEffect(..., [activeTab, loadLesson, refImage]): start the first lesson
initialLoadEffect(s) ==
    IF (s.activeTab # activeTab \/ s.refImage # refImage)
       /\ s.activeTab = "classroom" /\ s.refImage = NoImage
    THEN loadLesson(s, ALPHABET_LESSONS[1])
    ELSE s

\* WebcamView is rendered in the classroom tab only: entering the tab mounts
\* it with a fresh streamError, leaving the tab unmounts it
webcamEffect(s) ==
    IF s.activeTab = activeTab THEN s ELSE [s EXCEPT !.streamError = FALSE]

\* WebcamView's camera effect: mounting calls getUserMedia; the cleanup of
\* an unmount stops the stream its effect holds, and the requests still
\* pending outlive it
cameraEffect(s) ==
    IF s.activeTab = activeTab THEN s
    ELSE IF s.activeTab = "classroom"
         THEN [s EXCEPT !.cameraRequests = Append(@, [cleanedUp |-> FALSE])]
         ELSE [s EXCEPT !.heldStream = FALSE,
                        !.cameraRequests = [i \in 1..Len(@) |-> [cleanedUp |-> TRUE]]]

\* the overlay's scheduled requestAnimationFrame callbacks: how many there
\* are, and whether the animationFrameId of the current effect names one
NoDrawLoop == [scheduled |-> 0, current |-> FALSE]
DrawLoop == [scheduled |-> 1, current |-> TRUE]

\* cancelAnimationFrame(animationFrameId): a no-op when that callback has
\* run or none was requested
cancelAnimationFrame(f) ==
    IF f.current THEN [scheduled |-> f.scheduled - 1, current |-> FALSE] ELSE f

\* the body of the overlay effect: nothing without the canvas and the video
\* element; otherwise draw() runs once and requests the next frame
startDraw(f, videoMounted) ==
    IF videoMounted THEN [scheduled |-> f.scheduled + 1, current |-> TRUE]
    ELSE [f EXCEPT !.current = FALSE]

\* the overlay effect without its cleanup
overlayEffectWithoutCancel(s) ==
    LET mountedBefore == activeTab = "classroom"
        mountedAfter == s.activeTab = "classroom"
        depsChanged == \/ (s.appState = ANALYZING) # (appState = ANALYZING)
                       \/ s.isMicOn # isMicOn
    IN  IF mountedBefore /\ ~mountedAfter THEN s
        ELSE IF (~mountedBefore /\ mountedAfter) \/ (mountedAfter /\ depsChanged)
             THEN [s EXCEPT !.animationFrames = startDraw(@, ~s.streamError)]
             ELSE s

\* WebcamView's overlay effect, deps [isActive, isAnalyzing, isListening]:
\* unmounting runs the cleanup, mounting runs the body, a changed
\* isAnalyzing or isListening runs the cleanup and then the body
overlayEffect(s) ==
    LET mountedBefore == activeTab = "classroom"
        mountedAfter == s.activeTab = "classroom"
        depsChanged == \/ (s.appState = ANALYZING) # (appState = ANALYZING)
                       \/ s.isMicOn # isMicOn
    IN  IF mountedBefore /\ ~mountedAfter
        THEN [s EXCEPT !.animationFrames = cancelAnimationFrame(@)]
        ELSE IF ~mountedBefore /\ mountedAfter
             THEN [s EXCEPT !.animationFrames = startDraw(@, ~s.streamError)]
             ELSE IF mountedAfter /\ depsChanged
                  THEN [s EXCEPT !.animationFrames =
                                     startDraw(cancelAnimationFrame(@), ~s.streamError)]
                  ELSE s

\* the auto-check effect without the test of appState
autoCheckEffectIgnoringAppState(s) ==
    [s EXCEPT !.autoCheckInterval = s.isAutoMode /\ s.activeTab = "classroom"]

\* the auto-check effect: its cleanup clears the interval, and it sets a new
\* one when its condition holds
autoCheckEffect(s) ==
    [s EXCEPT !.autoCheckInterval =
                  /\ s.isAutoMode /\ s.activeTab = "classroom"
                  /\ s.appState \in {WAITING_FOR_USER, FEEDBACK, SUCCESS}]

\* recognitionRef.current?.stop()
stopRecognition(rs) ==
    IF rs = <<>> THEN rs ELSE [rs EXCEPT ![Len(rs)].status = "stopping"]

\* the voice effect, run when isMicOn or activeTab changed: the cleanup the
\* previous run returned (it returned none when it left at its first
\* line), then the new run.  A recognition keeps the isMicOn and activeTab
\* its onend handler closed over.
voiceEffect(s) ==
    IF s.isMicOn = isMicOn /\ s.activeTab = activeTab THEN s
    ELSE LET cleaned == IF speechRecognition /\ activeTab = "classroom"
                        THEN stopRecognition(s.recognitions)
                        ELSE s.recognitions
         IN  IF ~speechRecognition \/ s.activeTab # "classroom"
             THEN [s EXCEPT !.recognitions = cleaned]
             ELSE IF s.isMicOn
                  THEN [s EXCEPT !.recognitions =
                                     Append(cleaned, [status |-> "started",
                                                      isMicOn |-> s.isMicOn,
                                                      activeTab |-> s.activeTab])]
                  ELSE [s EXCEPT !.recognitions = stopRecognition(cleaned)]

\* feedback?.message is truthy
hasMessage(f) == f.json = "object" /\ f.message # Undefined

\* TeacherFeedback's speech effect runs at its mount and when feedback or
\* appState changed, and speaks when there is a message in FEEDBACK or
\* SUCCESS; window.speechSynthesis.cancel() throws when speechSynthesis is
\* undefined, and the uncaught error unmounts the root
speechEffect(s) ==
    IF /\ s.activeTab = "classroom"
       /\ s.activeTab # activeTab \/ s.feedback # feedback \/ s.appState # appState
       /\ hasMessage(s.feedback)
       /\ s.appState \in {FEEDBACK, SUCCESS}
       /\ ~speechSynthesis
    THEN [s EXCEPT !.app = "crashed"]
    ELSE s

\* localStorage items: none, text that is not JSON, JSON.stringify(p)
NoItem == [item |-> "null"]
CorruptItem == [item |-> "not json"]
stringify(p) == [item |-> "json", value |-> p]

\* useProgress's persist effect: setItem when progress changed
persistEffect(s) ==
    IF s.progress = progress THEN s ELSE [s EXCEPT !.storage = stringify(s.progress)]

InFlight(s) == Len(s.imageCalls) + Len(s.analysisCalls) + Len(s.lessonCalls)

WithinBounds(s) ==
    /\ InFlight(s) <= MaxInFlight
    /\ s.timers <= MaxTimers
    /\ Len(s.recognitions) <= MaxRecognitions
    /\ Len(s.cameraRequests) <= MaxCameraRequests

\* commit the writes s of one event and run the effects
CommitWrites(s) ==
    \E t1 \in {initialLoadEffect(s)} : \E t2 \in {webcamEffect(t1)} :
    \E t3 \in {cameraEffect(t2)} : \E t4 \in {overlayEffect(t3)} :
    \E t5 \in {autoCheckEffect(t4)} : \E t6 \in {voiceEffect(t5)} :
    \E t7 \in {speechEffect(t6)} : \E t \in {persistEffect(t7)} :
        /\ app = "mounted"
        /\ WithinBounds(t)
        /\ activeTab' = t.activeTab
        /\ currentLesson' = t.currentLesson
        /\ lessonQueue' = t.lessonQueue
        /\ appState' = t.appState
        /\ refImage' = t.refImage
        /\ feedback' = t.feedback
        /\ isAutoMode' = t.isAutoMode
        /\ isMicOn' = t.isMicOn
        /\ lastSpokenCommand' = t.lastSpokenCommand
        /\ customSentence' = t.customSentence
        /\ practiceInput' = t.practiceInput
        /\ practiceImage' = t.practiceImage
        /\ isPracticeGenerating' = t.isPracticeGenerating
        /\ progress' = t.progress
        /\ streamError' = t.streamError
        /\ cameraRequests' = t.cameraRequests
        /\ heldStream' = t.heldStream
        /\ leakedStreams' = t.leakedStreams
        /\ animationFrames' = t.animationFrames
        /\ autoCheckInterval' = t.autoCheckInterval
        /\ recognitions' = t.recognitions
        /\ storage' = t.storage
        /\ app' = t.app
        /\ imageCalls' = t.imageCalls
        /\ analysisCalls' = t.analysisCalls
        /\ lessonCalls' = t.lessonCalls
        /\ timers' = t.timers
        /\ UNCHANGED <<now, ai, speechRecognition, speechSynthesis>>

\* an event of the user or of a device, with its commit
UserEvent(name, s) ==
    /\ userEvents < MaxUserEvents
    /\ userEvents' = userEvents + 1
    /\ lastEvent' = name
    /\ CommitWrites(s)

\* a promise settling or a timeout firing, with its commit
Commit(name, s) == CommitWrites(s) /\ lastEvent' = name /\ UNCHANGED userEvents

(***************************************************************************)
(* Inputs                                                                  *)
(***************************************************************************)
Sentences == { <<" ">>, <<"a">>, <<"H", "i", " ", "2">>, <<"7", "!">> }
PracticeInputs == { <<"h", "i">>, <<" ">> }
\* what the speech recogniser returns (onresult trims it)
Transcripts ==
    { <<"s", "k", "i", "p", " ", "t", "o", " ", "n", "e", "x", "t", " ", "l", "e", "s", "s", "o", "n">>,
      <<" ", "G", "o", " ", "b", "a", "c", "k">>,
      <<"s", "h", "o", "w", " ", "m", "e", " ", "a", "g", "a", "i", "n">>,
      <<"t", "e", "a", "c", "h", " ", "m", "e", " ", "b">>,
      <<"i", "s", " ", "t", "h", "i", "s", " ", "r", "i", "g", "h", "t">>,
      <<"M", "o", "v", "e", " ", "T", "o", " ", "N", "e", "x", "t">>,
      <<"g", "o", " ", "b", "a", "c", "k", " ", "a", "g", "a", "i", "n">>,
      <<"s", "k", "i", "p", " ", "o", "r", " ", "g", "o", " ", "b", "a", "c", "k">> }

(***************************************************************************)
(* Initial state: the first render and its mount effects, which start the  *)
(* first lesson and the camera                                             *)
(***************************************************************************)
Init ==
    /\ activeTab = "classroom"
    /\ currentLesson = ALPHABET_LESSONS[1]
    /\ lessonQueue = ALPHABET_LESSONS
    /\ appState = GENERATING_REF
    /\ refImage = NoImage
    /\ feedback = Null
    /\ isAutoMode = FALSE
    /\ isMicOn = FALSE
    /\ lastSpokenCommand = NoCommand
    /\ customSentence = EmptyText
    /\ practiceInput = EmptyText
    /\ practiceImage = NoImage
    /\ isPracticeGenerating = FALSE
    /\ progress = INITIAL_PROGRESS
    /\ streamError = FALSE
    /\ cameraRequests = << [cleanedUp |-> FALSE] >>
    /\ heldStream = FALSE
    /\ leakedStreams = 0
    /\ animationFrames = DrawLoop
    /\ autoCheckInterval = FALSE
    /\ recognitions = << >>
    /\ storage = stringify(INITIAL_PROGRESS)
    /\ app = "mounted"
    /\ speechRecognition = TRUE
    /\ speechSynthesis = TRUE
    /\ imageCalls = << [prompt |-> ALPHABET_LESSONS[1].prompt, from |-> "loadLesson"] >>
    /\ analysisCalls = << >>
    /\ lessonCalls = << >>
    /\ timers = 0
    /\ now = 0
    /\ ai \in BOOLEAN
    /\ userEvents = 0
    /\ lastEvent = "mount"

(***************************************************************************)
(* Events                                                                  *)
(***************************************************************************)
\* sidebar NavItem click
TabChange == \E tab \in {"classroom", "practice"} : UserEvent("TabChange", handleTabChange(Render, tab))

\* VOICE and AUTO toggles (rendered in the classroom tab)
ToggleMic == activeTab = "classroom" /\ UserEvent("ToggleMic", [Render EXCEPT !.isMicOn = ~isMicOn])
ToggleAuto == activeTab = "classroom" /\ UserEvent("ToggleAuto", [Render EXCEPT !.isAutoMode = ~isAutoMode])

\* the sentence input: typing (onChange stores the text, which only
\* handleSentenceSubmit reads) and then Enter
SentenceSubmit ==
    /\ activeTab = "classroom"
    /\ \E text \in Sentences :
           UserEvent("SentenceSubmit", handleSentenceSubmit([Render EXCEPT !.customSentence = text], text))

\* the capture button is rendered when auto mode is off and the state is
\* WAITING_FOR_USER or FEEDBACK
CaptureButtonShown ==
    activeTab = "classroom" /\ ~isAutoMode /\ appState \in {WAITING_FOR_USER, FEEDBACK}
Capture == CaptureButtonShown /\ UserEvent("Capture", handleCapture(Render))

\* the interval of the auto-check effect exists
AutoCheckArmed == autoCheckInterval
AutoCheckTick ==
    /\ AutoCheckArmed
    /\ UserEvent("AutoCheckTick", IF hasScreenshot THEN performAnalysis(Render, EmptyText) ELSE Render)

\* recognition.onresult of a started recognition; the handler calls
\* processCommandRef.current, the processVoiceCommand of the current render
RecognitionStarted == \E i \in 1..Len(recognitions) : recognitions[i].status = "started"
VoiceResult ==
    /\ RecognitionStarted
    /\ \E raw \in Transcripts : UserEvent("VoiceResult", processVoiceCommand(Render, trim(raw)))

\* recognition.onend after stop(): the handler restarts the recognition
\* when the isMicOn and activeTab it closed over say so
RecognitionEnd ==
    \E i \in 1..Len(recognitions) :
        /\ recognitions[i].status = "stopping"
        /\ LET r == recognitions[i]
               restart == r.isMicOn /\ r.activeTab = "classroom"
           IN  Commit("RecognitionEnd",
                      [Render EXCEPT !.recognitions[i].status =
                                         IF restart THEN "started" ELSE "ended"])

\* the 3000 ms timeout of processVoiceCommand
LastSpokenTimeout ==
    /\ timers > 0
    /\ Commit("LastSpokenTimeout", [Render EXCEPT !.lastSpokenCommand = NoCommand, !.timers = @ - 1])

\* the navigation buttons over the canvas, and Next Lesson of TeacherFeedback
Next_ == activeTab = "classroom" /\ UserEvent("Next", handleNext(Render))
Previous ==
    /\ activeTab = "classroom"
    /\ findIndex(lessonQueue, currentLesson.id) # 0
    /\ UserEvent("Previous", handlePrevious(Render))
RefreshImage == activeTab = "classroom" /\ UserEvent("RefreshImage", handleRefreshImage(Render))

\* Retry of TeacherFeedback
RetryButtonShown ==
    /\ activeTab = "classroom"
    /\ appState \notin {IDLE, GENERATING_REF, ANALYZING, SUCCESS}
    /\ feedback # Null
Retry == RetryButtonShown /\ UserEvent("Retry", handleRetry(Render))

\* practice tab
\* the practice input: typing (onChange stores the text) and then Enter
PracticeGenerate ==
    /\ activeTab = "practice"
    /\ \E text \in PracticeInputs :
           UserEvent("PracticeGenerate", handlePracticeGenerate([Render EXCEPT !.practiceInput = text], text))
PracticeInClassroom ==
    /\ activeTab = "practice"
    /\ practiceImage # NoImage /\ ~isPracticeGenerating
    /\ UserEvent("PracticeInClassroom", handlePracticeInClassroom(Render))

\* getUserMedia of the mounted WebcamView is refused: the catch block of
\* startCamera
CameraDenied ==
    \E i \in 1..Len(cameraRequests) :
        LET s == [Render EXCEPT !.cameraRequests = RemoveAt(@, i)]
        IN  UserEvent("CameraDenied",
                      IF cameraRequests[i].cleanedUp THEN s
                      ELSE [s EXCEPT !.streamError = TRUE])

\* getUserMedia resolves with a stream: startCamera stores it in the stream
\* variable of its effect, whose cleanup may have run already
CameraGranted ==
    \E i \in 1..Len(cameraRequests) :
        LET s == [Render EXCEPT !.cameraRequests = RemoveAt(@, i)]
        IN  UserEvent("CameraGranted",
                      IF cameraRequests[i].cleanedUp
                      THEN [s EXCEPT !.leakedStreams = @ + 1]
                      ELSE [s EXCEPT !.heldStream = TRUE, !.streamError = FALSE])

\* a generateReferenceImage call settles: the promise resolves, or rejects
\* into the catch block of its caller
ImageSettled ==
    \E i \in 1..Len(imageCalls) :
      \E outcome \in {generateReferenceImage(ai, imageCalls[i].prompt, response) :
                          response \in ImageResponses} :
        LET call == imageCalls[i]
            s == [Render EXCEPT !.imageCalls = RemoveAt(@, i)]
            name == IF outcome.settled = "resolved" THEN "ImageResolved" ELSE "ImageRejected"
        IN  IF call.from = "loadLesson"
            THEN Commit(name, loadLessonSettled(s, outcome))
            ELSE Commit(name, handlePracticeGenerateSettled(s, outcome))

\* an analyzeHandShape call resolves
AnalysisSettled ==
    \E i \in 1..Len(analysisCalls) :
      \E result \in {analyzeHandShape(ai, analysisCalls[i].target,
                                       analysisCalls[i].spokenQuestion,
                                       response, isSuccess, k) :
                         response \in AnalysisResponses, isSuccess \in BOOLEAN,
                         k \in 0..2} :
        LET call == analysisCalls[i]
            s == [Render EXCEPT !.analysisCalls = RemoveAt(@, i)]
            \* the catch block of performAnalysis runs when result is null
            name == IF result = Null THEN "AnalysisCaught" ELSE "AnalysisResolved"
        IN  Commit(name, performAnalysisSettled(s, call.currentLesson.target, result))

\* a createLessonFromIntent call resolves
LessonSettled ==
    \E i \in 1..Len(lessonCalls) :
      \E newLesson \in {createLessonFromIntent(ai, lessonCalls[i].userVoicePrompt,
                                                response, now) :
                            response \in LessonResponses} :
        LET s == [Render EXCEPT !.lessonCalls = RemoveAt(@, i)]
        IN  Commit("LessonSettled", teachIntentSettled(s, newLesson))

\* time passes
ClockTick ==
    /\ app = "mounted"
    /\ now < MaxClock /\ now' = now + 1
    /\ userEvents < MaxUserEvents /\ userEvents' = userEvents + 1
    /\ lastEvent' = "ClockTick"
    /\ UNCHANGED << activeTab, currentLesson, lessonQueue, appState, refImage, feedback,
                    isAutoMode, isMicOn, lastSpokenCommand, customSentence, practiceInput,
                    practiceImage, isPracticeGenerating, progress, streamError,
                    cameraRequests, heldStream, leakedStreams, animationFrames, autoCheckInterval,
                    recognitions, storage, app, speechRecognition, speechSynthesis,
                    imageCalls, analysisCalls, lessonCalls, timers, ai >>

Next ==
    \/ TabChange \/ ToggleMic \/ ToggleAuto
    \/ SentenceSubmit
    \/ Capture \/ AutoCheckTick \/ VoiceResult \/ RecognitionEnd \/ LastSpokenTimeout
    \/ Next_ \/ Previous \/ RefreshImage \/ Retry
    \/ PracticeGenerate \/ PracticeInClassroom
    \/ CameraDenied
    \/ ImageSettled \/ AnalysisSettled \/ LessonSettled
    \/ ClockTick

\* what can be typed into the sentence input: every text of up to
\* MaxSentenceLen characters over SentenceChars, and three examples
MaxSentenceLen == 3
SentenceChars == {"a", "B", " ", "7"}
HelloWorld == <<"H", "e", "l", "l", "o", " ", "W", "o", "r", "l", "d", "!">>
TypedSentences ==
    UNION { [1..n -> SentenceChars] : n \in 1..MaxSentenceLen } \cup { HelloWorld, <<"A">>, <<"7", "!">> }

\* the sentence input's onChange
TypeSentence ==
    /\ activeTab = "classroom"
    /\ \E text \in TypedSentences :
           UserEvent("TypeSentence", [Render EXCEPT !.customSentence = text])

\* Enter in the sentence input
SentenceEnter ==
    /\ activeTab = "classroom"
    /\ UserEvent("SentenceEnter", handleSentenceSubmit(Render, customSentence))

\* typing sentences and submitting them
SentenceNext == TypeSentence \/ SentenceEnter \/ ImageSettled
SentenceSpec == Init /\ [][SentenceNext]_vars

\* the localStorage item found at startup
StoredItems ==
    { NoItem, CorruptItem, stringify(INITIAL_PROGRESS),
      stringify([xp |-> 50, level |-> "Beginner", streakDays |-> 1,
                 learnedSigns |-> << <<"A">> >>]) }

\* the page before React renders App: the useState cells hold nothing yet
\* (the variables carry their initial arguments)
Unmounted ==
    /\ app = "unmounted"
    /\ storage \in StoredItems
    /\ activeTab = "classroom"
    /\ currentLesson = ALPHABET_LESSONS[1]
    /\ lessonQueue = ALPHABET_LESSONS
    /\ appState = IDLE
    /\ refImage = NoImage
    /\ feedback = Null
    /\ isAutoMode = FALSE
    /\ isMicOn = FALSE
    /\ lastSpokenCommand = NoCommand
    /\ customSentence = EmptyText
    /\ practiceInput = EmptyText
    /\ practiceImage = NoImage
    /\ isPracticeGenerating = FALSE
    /\ progress = INITIAL_PROGRESS
    /\ streamError = FALSE
    /\ cameraRequests = << >>
    /\ heldStream = FALSE
    /\ leakedStreams = 0
    /\ animationFrames = NoDrawLoop
    /\ autoCheckInterval = FALSE
    /\ recognitions = << >>
    /\ speechRecognition = TRUE
    /\ speechSynthesis = TRUE
    /\ imageCalls = << >>
    /\ analysisCalls = << >>
    /\ lessonCalls = << >>
    /\ timers = 0
    /\ now = 0
    /\ ai \in BOOLEAN
    /\ userEvents = 0
    /\ lastEvent = "load"

\* the initializer of useProgress's useState: the saved item parsed, or
\* INITIAL_PROGRESS when there is none.  JSON.parse throws on text that is
\* not JSON, inside the first render.
initialProgress(item) ==
    IF item = NoItem THEN [threw |-> FALSE, value |-> INITIAL_PROGRESS]
    ELSE IF item.item = "json" THEN [threw |-> FALSE, value |-> item.value]
    ELSE [threw |-> TRUE, value |-> INITIAL_PROGRESS]

\* the first render of App and its mount effects: the initial-load effect
\* starts the first lesson, WebcamView asks for the camera, useProgress
\* persists what it loaded.  A render that throws leaves nothing mounted.
Mount ==
    /\ app = "unmounted"
    /\ lastEvent' = "mount"
    /\ LET loaded == initialProgress(storage)
       IN  IF loaded.threw
           THEN /\ app' = "crashed"
                /\ UNCHANGED << activeTab, currentLesson, lessonQueue, appState, refImage,
                                feedback, isAutoMode, isMicOn, lastSpokenCommand,
                                customSentence, practiceInput, practiceImage,
                                isPracticeGenerating, progress, streamError,
                                cameraRequests, heldStream, leakedStreams, animationFrames,
                                autoCheckInterval, recognitions, storage,
                                speechRecognition, speechSynthesis, imageCalls,
                                analysisCalls, lessonCalls, timers, now, ai, userEvents >>
           ELSE /\ app' = "mounted"
                /\ progress' = loaded.value
                /\ storage' = stringify(loaded.value)
                /\ appState' = GENERATING_REF
                /\ imageCalls' = << [prompt |-> ALPHABET_LESSONS[1].prompt,
                                     from |-> "loadLesson"] >>
                /\ cameraRequests' = << [cleanedUp |-> FALSE] >>
                /\ animationFrames' = DrawLoop
                /\ UNCHANGED << activeTab, currentLesson, lessonQueue, refImage,
                                feedback, isAutoMode, isMicOn, lastSpokenCommand,
                                customSentence, practiceInput, practiceImage,
                                isPracticeGenerating, streamError,
                                heldStream, leakedStreams,
                                autoCheckInterval, recognitions,
                                speechRecognition, speechSynthesis,
                                analysisCalls, lessonCalls, timers, now, ai, userEvents >>

\* what a component can ask of the hook between two renders
HookBatches ==
    { [name |-> "addXP(50)", calls |-> << AddXPCall(50) >>],
      [name |-> "addXP(50) addXP(50)", calls |-> << AddXPCall(50), AddXPCall(50) >>],
      [name |-> "addXP(100)", calls |-> << AddXPCall(100) >>],
      [name |-> "markLearned(A)", calls |-> << MarkLearnedCall(<<"A">>) >>],
      [name |-> "markLearned(A) markLearned(A)",
       calls |-> << MarkLearnedCall(<<"A">>), MarkLearnedCall(<<"A">>) >>],
      [name |-> "markLearned(B)", calls |-> << MarkLearnedCall(<<"B">>) >>],
      [name |-> "addXP(50) markLearned(A)",
       calls |-> << AddXPCall(50), MarkLearnedCall(<<"A">>) >>] }

\* a batch of calls of addXP and markLearned, and the render that follows
ProgressBatch ==
    \E batch \in HookBatches :
        UserEvent(batch.name, [Render EXCEPT !.progress = applyUpdaters(@, batch.calls)])

\* the progress store used by the exercise and by any other caller
ProgressNext == ProgressBatch \/ ImageSettled \/ Capture \/ AnalysisSettled
ProgressSpec == Init /\ [][ProgressNext]_vars

\* the camera and the capture button
CaptureNext ==
    \/ TabChange \/ CameraGranted \/ CameraDenied
    \/ ImageSettled \/ Capture \/ AnalysisSettled
CaptureSpec == Init /\ [][CaptureNext]_vars

\* a scheduled draw callback runs: without the video element it returns,
\* otherwise it draws and requests the next frame.  The callback is the one
\* of the current effect or one that no cleanup cancelled.
AnimationFrame ==
    /\ animationFrames.scheduled > 0
    /\ LET videoMounted == activeTab = "classroom" /\ ~streamError
       IN  \E ofCurrent \in BOOLEAN :
             /\ ofCurrent => animationFrames.current
             /\ ~ofCurrent => animationFrames.scheduled > (IF animationFrames.current THEN 1 ELSE 0)
             /\ Commit("AnimationFrame",
                       IF videoMounted THEN Render
                       ELSE [Render EXCEPT !.animationFrames =
                                [scheduled |-> @.scheduled - 1,
                                 current |-> @.current /\ ~ofCurrent]])

\* the overlay of the camera view during an exercise
OverlayNext ==
    \/ TabChange \/ ToggleMic \/ CameraDenied \/ AnimationFrame
    \/ ImageSettled \/ Capture \/ AnalysisSettled
OverlaySpec == Init /\ [][OverlayNext]_vars

\* the start of the page, with whatever localStorage holds, and a first
\* exercise
StartupNext == Mount \/ ImageSettled \/ Capture \/ AnalysisSettled \/ Retry
StartupSpec == Unmounted /\ [][StartupNext]_vars

\* App in a browser with both speech facilities.  The arrival of the camera
\* stream changes nothing App reads (getScreenshot needs the video element
\* only); CameraSpec follows it.
Spec == Init /\ [][Next]_vars

\* WebcamView over mounts and unmounts of the classroom tab
CameraNext == TabChange \/ CameraGranted \/ CameraDenied \/ ImageSettled
CameraSpec == Init /\ [][CameraNext]_vars

(***************************************************************************)
(* Properties.  A step is told apart by lastEvent', the transcript of a    *)
(* voice step by lastSpokenCommand'.                                       *)
(***************************************************************************)
\* the step called loadLesson(L): L is current, the state is GENERATING_REF
\* and the image request for L's prompt was sent
LoadStarted(L) ==
    /\ currentLesson' = L
    /\ appState' = GENERATING_REF
    /\ Len(imageCalls') = Len(imageCalls) + 1
    /\ imageCalls'[Len(imageCalls')] = [prompt |-> L.prompt, from |-> "loadLesson"]
    /\ SubSeq(imageCalls', 1, Len(imageCalls)) = imageCalls

\* the step sent no request to the gateway
NothingSent == UNCHANGED <<imageCalls, analysisCalls, lessonCalls>>

\* the step sent the analysis request
AnalysisStarted == Len(analysisCalls') = Len(analysisCalls) + 1

\* the step is a frame submission: the capture button, an auto-check tick, or
\* a transcript that falls through to the default branch
FrameSubmission ==
    \/ lastEvent' = "Capture"
    \/ lastEvent' = "AutoCheckTick"
    \/ lastEvent' = "VoiceResult" /\ voiceBranch(lastSpokenCommand') = "performAnalysis"

\* C1: a frame submission (manual capture, auto-check tick, or a voice
\* transcript that matches no command keyword) while appState is ANALYZING or
\* GENERATING_REF is a no-op: no analysis call is started, and appState,
\* feedback, the current lesson, the lesson queue and progress are unchanged.
C1_BusySubmissionIsNoOp ==
    [][ (appState \in {ANALYZING, GENERATING_REF} /\ FrameSubmission)
            => UNCHANGED <<analysisCalls, appState, feedback, currentLesson,
                           lessonQueue, progress>> ]_vars

\* a transcript of the default branch arrived while the first reference image
\* was still being generated, with the camera delivering frames
C1_Witness ==
    /\ lastEvent = "VoiceResult"
    /\ voiceBranch(lastSpokenCommand) = "performAnalysis"
    /\ hasScreenshot
    /\ appState = GENERATING_REF
    /\ analysisCalls = <<>>

\* C2: for every lesson, at most one analyzeHandShape call is in flight at
\* any time, under every interleaving of capture clicks, auto-check ticks and
\* voice transcripts.
C2_OneAnalysisInFlightPerLesson ==
    \A i, j \in 1..Len(analysisCalls) :
        i # j => analysisCalls[i].currentLesson.id # analysisCalls[j].currentLesson.id

\* C3: every transition into ANALYZING starts from WAITING_FOR_USER, FEEDBACK
\* or SUCCESS, whichever trigger submitted the frame; none starts from IDLE.
C3_AnalyzingEnteredFromReadyStates ==
    [][ (appState # ANALYZING /\ appState' = ANALYZING)
            => appState \in {WAITING_FOR_USER, FEEDBACK, SUCCESS} ]_vars

\* C4: when the analysis of a submission resolves, appState becomes SUCCESS
\* exactly when the result's success flag is true, and then XP grows by
\* exactly 50 and the submitted lesson's target is learned; otherwise appState
\* becomes FEEDBACK and XP and the learned set are unchanged.  (feedback'
\* holds the result in both cases.)
C4_AnalysisResultDecidesState ==
    [][ lastEvent' \in {"AnalysisResolved", "AnalysisCaught"}
            => \E i \in 1..Len(analysisCalls) :
                 /\ analysisCalls' = RemoveAt(analysisCalls, i)
                 /\ IF feedback'.json = "object" /\ feedback'.success = "true"
                    THEN /\ appState' = SUCCESS
                         /\ progress'.xp = progress.xp + 50
                         /\ learned(progress', analysisCalls[i].target)
                    ELSE /\ appState' = FEEDBACK
                         /\ progress' = progress ]_vars

\* the lessons a load started by the event of this step may be for
LoadCandidates ==
    CASE lastEvent' = "TabChange" -> {ALPHABET_LESSONS[1]}
      [] lastEvent' = "RefreshImage" -> {currentLesson}
      [] lastEvent' = "LessonSettled" -> {lessonQueue'[Len(lessonQueue')]}
      [] lastEvent' = "VoiceResult" ->
             {currentLesson} \cup {lessonQueue[i] : i \in 1..Len(lessonQueue)}
      [] OTHER -> {lessonQueue[i] : i \in 1..Len(lessonQueue)}

\* C5: loading a lesson L (initial mount, next/previous navigation,
\* repeat/refresh, dynamic-lesson creation by voice) from any state makes L
\* the current lesson, sets appState to GENERATING_REF and clears feedback in
\* one step; when its reference-image request resolves, the reference image
\* is set and appState becomes WAITING_FOR_USER.
C5_LoadLesson ==
    [][ /\ ( /\ lastEvent' \in {"TabChange", "Next", "Previous", "RefreshImage",
                               "VoiceResult", "LessonSettled"}
             /\ Len(imageCalls') > Len(imageCalls) )
            => /\ \E L \in LoadCandidates : LoadStarted(L)
               /\ feedback' = Null
        /\ lastEvent' = "ImageResolved"
            => \E i \in 1..Len(imageCalls) :
                 /\ imageCalls' = RemoveAt(imageCalls, i)
                 /\ imageCalls[i].from = "loadLesson"
                        => /\ appState' = WAITING_FOR_USER
                           /\ refImage' \in {generateReferenceImage(ai, imageCalls[i].prompt, r).value :
                                                r \in ImageResponses}
                           /\ refImage' # NoImage ]_vars

\* the second lesson was loaded by navigation and its image has arrived
C5_Witness ==
    /\ lastEvent = "ImageResolved"
    /\ currentLesson = ALPHABET_LESSONS[2]
    /\ refImage.of = currentLesson.prompt
    /\ appState = WAITING_FOR_USER
    /\ feedback = Null

\* C6: if the reference-image request of a load fails, then afterwards
\* appState is IDLE and feedback is null, however the load was started
\* (navigation, repeat, sentence submission, voice teach-intent).
C6_FailedLoadLeavesIdleWithoutFeedback ==
    [][ lastEvent' = "ImageRejected" => appState' = IDLE /\ feedback' = Null ]_vars

\* C7: if the analysis of an accepted submission fails, appState reverts to
\* WAITING_FOR_USER, feedback stays null, and XP and the learned set are
\* unchanged.
C7_FailedAnalysisRevertsToWaiting ==
    [][ lastEvent' = "AnalysisCaught"
            => /\ appState' = WAITING_FOR_USER
               /\ feedback' = Null
               /\ progress' = progress ]_vars

\* the catch block of performAnalysis has just run
C7_Witness ==
    /\ lastEvent = "AnalysisCaught"
    /\ appState = WAITING_FOR_USER
    /\ feedback = Null
    /\ analysisCalls = <<>>

\* the current lesson is in the queue at index i (1-based) and nowhere else
CurrentAt(i) ==
    /\ lessonQueue[i] = currentLesson
    /\ \A j \in 1..Len(lessonQueue) : j # i => lessonQueue[j] # currentLesson

\* C8: for every lesson queue and every current lesson in it at index i, Next
\* loads the lesson at index (i + 1) mod length, so Next from the last lesson
\* loads the first; Previous loads index i - 1 when i > 0 and changes nothing
\* when i = 0.  (Indices here are 1-based.)
C8_NextAndPrevious ==
    [][ \A i \in 1..Len(lessonQueue) :
          CurrentAt(i) =>
            /\ lastEvent' = "Next"
                   => LoadStarted(lessonQueue[(i % Len(lessonQueue)) + 1])
            /\ lastEvent' = "Previous"
                   => IF i > 1 THEN LoadStarted(lessonQueue[i - 1])
                      ELSE UNCHANGED <<currentLesson, lessonQueue, appState,
                                       feedback, refImage, imageCalls>> ]_vars

\* the keyword lists as the voice rules are stated
AdvanceWords == { <<"n", "e", "x", "t", " ", "l", "e", "s", "s", "o", "n">>,
                  <<"s", "k", "i", "p">> }
AdvanceWordsOfTheCode == AdvanceWords \cup { <<"m", "o", "v", "e", " ", "t", "o", " ", "n", "e", "x", "t">> }
RetreatWords == { <<"p", "r", "e", "v", "i", "o", "u", "s", " ", "l", "e", "s", "s", "o", "n">>,
                  <<"g", "o", " ", "b", "a", "c", "k">> }
RepeatWords == { <<"a", "g", "a", "i", "n">>, <<"r", "e", "p", "e", "a", "t">>, <<"r", "e", "s", "t", "a", "r", "t">> }
TeachWords == { <<"h", "o", "w", " ", "t", "o">>, <<"s", "h", "o", "w", " ", "m", "e">>, <<"t", "e", "a", "c", "h", " ", "m", "e">> }

\* the first matching rule, in the order advance, retreat, repeat, teach,
\* default, on the lower-cased transcript
SpokenRule(transcript, advanceWords) ==
    LET lower == toLowerCase(transcript)
        has(words) == \E w \in words : includes(lower, w)
    IN  IF has(advanceWords) THEN "advance"
        ELSE IF has(RetreatWords) THEN "retreat"
        ELSE IF has(RepeatWords) THEN "repeat"
        ELSE IF has(TeachWords) THEN "teach"
        ELSE "default"

\* what a voice step does when it dispatches rule
Dispatched(rule, transcript) ==
    LET idx == findIndex(lessonQueue, currentLesson.id)
    IN  CASE rule = "advance" ->
                 LoadStarted(lessonQueue[((idx + 1) % Len(lessonQueue)) + 1])
          [] rule = "retreat" ->
                 IF idx > 0 THEN LoadStarted(lessonQueue[idx])
                 ELSE NothingSent /\ UNCHANGED <<currentLesson, appState, feedback>>
          [] rule = "repeat" -> LoadStarted(currentLesson)
          [] rule = "teach" ->
                 /\ lessonCalls' = Append(lessonCalls, [userVoicePrompt |-> transcript])
                 /\ UNCHANGED <<imageCalls, analysisCalls, currentLesson>>
          [] OTHER ->
                 /\ UNCHANGED <<imageCalls, lessonCalls, currentLesson>>
                 /\ \/ UNCHANGED <<analysisCalls, appState, feedback>>
                    \/ /\ AnalysisStarted
                       /\ analysisCalls'[Len(analysisCalls')].spokenQuestion = transcript

ShowMeAgain == <<"s", "h", "o", "w", " ", "m", "e", " ", "a", "g", "a", "i", "n">>

\* C9 as stated: the voice interpreter dispatches exactly one action, chosen
\* by the first matching rule in the order advance ('next lesson', 'skip'),
\* retreat ('previous lesson', 'go back'), repeat ('again', 'repeat',
\* 'restart'), teach ('how to', 'show me', 'teach me'), default (analysis
\* with the transcript as spoken question); matching is case-insensitive
\* substring matching, and 'show me again' reloads the current lesson.
C9_VoiceRulesAsStated ==
    [][ lastEvent' = "VoiceResult"
            => Dispatched(SpokenRule(lastSpokenCommand', AdvanceWords),
                          lastSpokenCommand') ]_vars

\* C9, amended: the same first-match order, with 'move to next' a third
\* advance keyword beside 'next lesson' and 'skip'; 'show me again' reloads
\* the current lesson.
C9_VoiceRules ==
    [][ lastEvent' = "VoiceResult"
            => /\ Dispatched(SpokenRule(lastSpokenCommand', AdvanceWordsOfTheCode),
                             lastSpokenCommand')
               /\ lastSpokenCommand' = ShowMeAgain => LoadStarted(currentLesson) ]_vars

\* 'show me again' (repeat and teach both match) has reloaded the lesson
\* that was current, and no lesson was requested
C9_Witness ==
    /\ lastEvent = "VoiceResult"
    /\ lastSpokenCommand = ShowMeAgain
    /\ appState = GENERATING_REF
    /\ currentLesson = ALPHABET_LESSONS[1]
    /\ lessonCalls = <<>>
    /\ refImage # NoImage

SkipToNextLesson == <<"s", "k", "i", "p", " ", "t", "o", " ", "n", "e", "x", "t", " ", "l", "e", "s", "s", "o", "n">>
GoBack == <<"g", "o", " ", "b", "a", "c", "k">>

\* C10: a voice advance/retreat command has the same effect as the
\* Next/Previous navigation at every queue position: 'skip to next lesson' at
\* position 1 of 3 makes position 2 current and starts a reference-image
\* load; 'go back' at position 1 leaves the current lesson and position
\* unchanged and starts no load.
C10_VoiceNavigation ==
    [][ lastEvent' = "VoiceResult" =>
          LET rule == SpokenRule(lastSpokenCommand', AdvanceWordsOfTheCode)
              pressed == IF rule = "advance" THEN handleNext(Render)
                         ELSE handlePrevious(Render)
          IN  /\ rule \in {"advance", "retreat"}
                  => /\ currentLesson' = pressed.currentLesson
                     /\ lessonQueue' = pressed.lessonQueue
                     /\ appState' = pressed.appState
                     /\ feedback' = pressed.feedback
                     /\ refImage' = pressed.refImage
                     /\ imageCalls' = pressed.imageCalls
                     /\ analysisCalls' = pressed.analysisCalls
                     /\ progress' = progress
              /\ ( /\ lastSpokenCommand' = SkipToNextLesson
                   /\ lessonQueue = ALPHABET_LESSONS
                   /\ currentLesson = ALPHABET_LESSONS[1] )
                  => LoadStarted(ALPHABET_LESSONS[2])
              /\ ( /\ toLowerCase(lastSpokenCommand') = GoBack
                   /\ lessonQueue[1] = currentLesson )
                  => /\ NothingSent
                     /\ UNCHANGED <<currentLesson, lessonQueue, appState, feedback>> ]_vars

\* 'skip to next lesson' at the first of the three lessons
C10_Witness ==
    /\ lastEvent = "VoiceResult"
    /\ lastSpokenCommand = SkipToNextLesson
    /\ lessonQueue = ALPHABET_LESSONS
    /\ currentLesson = ALPHABET_LESSONS[2]
    /\ appState = GENERATING_REF
    /\ imageCalls # <<>>

\* the condition under which the auto-check effect sets its interval
AutoCheckCondition ==
    /\ isAutoMode /\ activeTab = "classroom"
    /\ appState \in {WAITING_FOR_USER, FEEDBACK, SUCCESS}

\* C11: an auto-check tick fires only while auto mode is on, the classroom
\* tab is active and appState is WAITING_FOR_USER, FEEDBACK or SUCCESS; after
\* every step the interval exists exactly when those three conditions hold,
\* so it is gone as soon as one of them fails and back when all hold again.
C11_AutoCheckTimer ==
    [][ /\ lastEvent' = "AutoCheckTick" => AutoCheckCondition
        /\ autoCheckInterval' <=> AutoCheckCondition' ]_vars

\* a tick has submitted a frame and the state left the three states: the
\* interval is gone while auto mode is still on
C11_Witness ==
    /\ lastEvent = "AutoCheckTick"
    /\ isAutoMode
    /\ appState = ANALYZING
    /\ ~autoCheckInterval

\* C12: after the mic is turned off or the classroom tab is left, the
\* recognition session is torn down: no transcript reaches the voice command
\* interpreter until the mic is turned on again in the classroom tab.
C12_NoTranscriptWhileMicOff ==
    [][ lastEvent' = "VoiceResult" => isMicOn /\ activeTab = "classroom" ]_vars

\* the camera streams that are acquired and not stopped
LiveStreams == (IF heldStream THEN 1 ELSE 0) + leakedStreams

\* C13: the camera stream is released on every exit path: while WebcamView
\* is unmounted (practice tab) no acquired stream is left unreleased, also
\* when the unmount came while getUserMedia was pending; so at most one
\* stream is live at any time across remounts.
C13_CameraStreamReleased ==
    /\ activeTab = "practice" => LiveStreams = 0
    /\ LiveStreams <= 1

\* C14: none of the three gateway operations ever rejects: whatever the
\* primary path does, the promise resolves with a value.  (analyzeHandShape
\* and createLessonFromIntent have no rejecting outcome in the model; a
\* rejection is an ImageRejected step.)
C14_GatewayNeverRejects ==
    [][ lastEvent' # "ImageRejected" ]_vars

\* a FeedbackResponse with a boolean success and a message
WellFormedFeedback(f) ==
    /\ f.json = "object"
    /\ f.success \in {"true", "false"}
    /\ f.message # Undefined

\* C15: analyzeHandShape always resolves to a well-formed FeedbackResponse
\* (boolean success, non-empty message), for a failing call, empty text,
\* unparseable text and JSON of another shape alike.  (feedback' is the
\* value it resolved with.)
C15_AnalysisResultWellFormed ==
    [][ lastEvent' \in {"AnalysisResolved", "AnalysisCaught"}
            => WellFormedFeedback(feedback') ]_vars

\* C16: loading the progress record at startup gives the stored record when
\* there is one and it parses, and the default record when there is none or
\* it does not parse; no error is surfaced in either case.
C16_ProgressLoadedOrDefault ==
    [][ lastEvent' = "mount"
            => /\ app' = "mounted"
               /\ progress' = IF storage.item = "json" THEN storage.value
                              ELSE INITIAL_PROGRESS ]_vars

\* Init is what Mount gives with nothing stored
MountGivesInit ==
    [][ (lastEvent' = "mount" /\ storage = NoItem) => Init' ]_vars

\* App mounted in a browser that lacks window.SpeechRecognition (and the
\* webkit form), window.speechSynthesis, or both
DegradedInit ==
    /\ activeTab = "classroom"
    /\ currentLesson = ALPHABET_LESSONS[1]
    /\ lessonQueue = ALPHABET_LESSONS
    /\ appState = GENERATING_REF
    /\ refImage = NoImage
    /\ feedback = Null
    /\ isAutoMode = FALSE
    /\ isMicOn = FALSE
    /\ lastSpokenCommand = NoCommand
    /\ customSentence = EmptyText
    /\ practiceInput = EmptyText
    /\ practiceImage = NoImage
    /\ isPracticeGenerating = FALSE
    /\ progress = INITIAL_PROGRESS
    /\ streamError = FALSE
    /\ cameraRequests = << [cleanedUp |-> FALSE] >>
    /\ heldStream = FALSE
    /\ leakedStreams = 0
    /\ animationFrames = DrawLoop
    /\ autoCheckInterval = FALSE
    /\ recognitions = << >>
    /\ storage = stringify(INITIAL_PROGRESS)
    /\ app = "mounted"
    /\ speechRecognition \in BOOLEAN
    /\ speechSynthesis \in BOOLEAN
    /\ ~(speechRecognition /\ speechSynthesis)
    /\ imageCalls = << [prompt |-> ALPHABET_LESSONS[1].prompt, from |-> "loadLesson"] >>
    /\ analysisCalls = << >>
    /\ lessonCalls = << >>
    /\ timers = 0
    /\ now = 0
    /\ ai \in BOOLEAN
    /\ userEvents = 0
    /\ lastEvent = "mount"

\* an exercise in such a browser
DegradedNext ==
    ToggleMic \/ TabChange \/ ImageSettled \/ Capture \/ AnalysisSettled \/ Retry
DegradedSpec == DegradedInit /\ [][DegradedNext]_vars

\* without speech recognition the VOICE toggle only flips isMicOn
MicOnStartsNoSession ==
    (~speechRecognition /\ lastEvent' = "ToggleMic")
        => /\ isMicOn' = ~isMicOn
           /\ recognitions' = << >>
           /\ UNCHANGED << activeTab, currentLesson, lessonQueue, appState, refImage,
                           feedback, isAutoMode, lastSpokenCommand, customSentence,
                           practiceInput, practiceImage, isPracticeGenerating,
                           progress, streamError, cameraRequests, heldStream,
                           leakedStreams, animationFrames, autoCheckInterval, storage, app,
                           imageCalls, analysisCalls, lessonCalls, timers >>

\* without speech synthesis no step raises an error
NoSynthesisNoError == ~speechSynthesis => app' = "mounted"

\* C17: without speech recognition, turning the mic on starts no session and
\* changes nothing else; without speech synthesis, reaching Feedback or
\* Success with a message raises no error and the app keeps working.
C17_SpeechFacilitiesOptional ==
    [][ MicOnStartsNoSession /\ NoSynthesisNoError ]_vars

C17_MicOnStartsNoSession == [][ MicOnStartsNoSession ]_vars

\* C18: the identifiers of the lessons in the queue are pairwise distinct,
\* after any sentence submission, teach-intent append or practice prepend,
\* whatever the model returns and whatever the clock reads.
C18_LessonIdsDistinct ==
    \A i, j \in 1..Len(lessonQueue) :
        lessonQueue[i].id = lessonQueue[j].id => i = j

\* the positions where a run of non-whitespace characters starts, and the
\* run that starts there
TokenStarts(text) ==
    { i \in 1..Len(text) : ~isSpace(text[i]) /\ (i = 1 \/ isSpace(text[i - 1])) }
TokenAt(text, i) ==
    LET end == CHOOSE j \in i..Len(text) :
                   /\ \A k \in i..j : ~isSpace(text[k])
                   /\ (j = Len(text) \/ isSpace(text[j + 1]))
    IN  SubSeq(text, i, end)
\* the tokens of a text in input order
RECURSIVE TokensFrom(_, _)
TokensFrom(text, starts) ==
    IF starts = {} THEN << >>
    ELSE LET i == CHOOSE m \in starts : \A n \in starts : m <= n
         IN  << TokenAt(text, i) >> \o TokensFrom(text, starts \ {i})
\* each token without its non-alphabetic characters, in upper case, the
\* empty ones dropped
Survivors(text) ==
    LET tokens == TokensFrom(text, TokenStarts(text))
        cleaned == [i \in 1..Len(tokens) |-> toUpperCase(SelectSeq(tokens[i], isAlpha))]
    IN  SelectSeq(cleaned, LAMBDA w : w # EmptyText)
Targets(queue) == [i \in 1..Len(queue) |-> queue[i].target]
Difficulties(queue) == [i \in 1..Len(queue) |-> queue[i].difficulty]

\* C19: the lessons of a submitted sentence are its whitespace-separated
\* tokens, stripped of non-alphabetic characters, upper-cased, the empty ones
\* dropped, in input order; a one-letter token gives a Beginner letter lesson
\* and a longer one an Intermediate word lesson.  'Hello World!' gives
\* [HELLO, WORLD], both Intermediate, and 'A' gives one Beginner lesson A.
C19_SentenceDecomposition ==
    [][ lastEvent' = "SentenceEnter" =>
          /\ Survivors(customSentence) # << >> =>
                /\ Targets(lessonQueue') = Survivors(customSentence)
                /\ \A i \in 1..Len(lessonQueue') :
                       LET l == lessonQueue'[i]
                       IN  /\ l.prompt.arg = l.target
                           /\ IF Len(l.target) = 1
                              THEN l.difficulty = "Beginner" /\ l.prompt.kind = "letter"
                              ELSE l.difficulty = "Intermediate" /\ l.prompt.kind = "word"
          /\ customSentence = HelloWorld =>
                /\ Targets(lessonQueue') = << <<"H", "E", "L", "L", "O">>, <<"W", "O", "R", "L", "D">> >>
                /\ Difficulties(lessonQueue') = << "Intermediate", "Intermediate" >>
          /\ customSentence = <<"A">> =>
                /\ Targets(lessonQueue') = << <<"A">> >>
                /\ Difficulties(lessonQueue') = << "Beginner" >> ]_vars

\* the sentence 'Hello World!' has been submitted
C19_Witness ==
    /\ lastEvent = "SentenceEnter"
    /\ Targets(lessonQueue) = << <<"H", "E", "L", "L", "O">>, <<"W", "O", "R", "L", "D">> >>

\* C20: submitting a sentence that is blank, or that gives no lesson, leaves
\* the queue, the current lesson, appState, the reference image and the
\* feedback as they were and starts no load.
C20_EmptySubmissionIsNoOp ==
    [][ ( /\ lastEvent' = "SentenceEnter"
          /\ (trim(customSentence) = EmptyText \/ Survivors(customSentence) = << >>) )
            => UNCHANGED << lessonQueue, currentLesson, appState, refImage, feedback,
                            imageCalls, lessonCalls, analysisCalls >> ]_vars

\* a sentence of numerals and punctuation has been submitted while a lesson
\* was ready
C20_Witness ==
    /\ lastEvent = "SentenceEnter"
    /\ trim(customSentence) # EmptyText
    /\ Survivors(customSentence) = << >>
    /\ appState = WAITING_FOR_USER
    /\ lessonQueue = ALPHABET_LESSONS

\* C21: submitting a sentence that gives n >= 1 lessons replaces the queue:
\* afterwards the queue is exactly those n lessons in token order (it has
\* length n, so nothing of the previous queue remains), the current lesson
\* is the first of them (position 1 of n) and its load has started.
C21_SentenceReplacesQueue ==
    [][ (lastEvent' = "SentenceEnter" /\ Survivors(customSentence) # << >>)
            => /\ Len(lessonQueue') = Len(Survivors(customSentence))
               /\ Targets(lessonQueue') = Survivors(customSentence)
               /\ findIndex(lessonQueue', currentLesson'.id) = 0
               /\ LoadStarted(lessonQueue'[1]) ]_vars

\* a two-letter sentence has been submitted while an earlier load was pending
C21_Witness ==
    /\ lastEvent = "SentenceEnter"
    /\ Targets(lessonQueue) = << <<"A">>, <<"B">> >>
    /\ currentLesson = lessonQueue[1]
    /\ appState = GENERATING_REF
    /\ Len(imageCalls) >= 2

\* the learned signs as a set
LearnedSet(p) == { p.learnedSigns[i] : i \in 1..Len(p.learnedSigns) }
NoDuplicates(p) == Cardinality(LearnedSet(p)) = Len(p.learnedSigns)

\* C22: markLearned is idempotent: calling it twice with the same sign gives
\* the same learned set as calling it once, and the learned set never holds
\* a sign twice.
C22_MarkLearnedIdempotent ==
    [][ /\ lastEvent' \in {"markLearned(A)", "markLearned(A) markLearned(A)"}
            => /\ LearnedSet(progress') = LearnedSet(progress) \cup { <<"A">> }
               /\ Len(progress'.learnedSigns)
                      = IF <<"A">> \in LearnedSet(progress)
                        THEN Len(progress.learnedSigns)
                        ELSE Len(progress.learnedSigns) + 1
               /\ progress'.xp = progress.xp
        /\ NoDuplicates(progress') ]_vars

\* A was marked twice in one batch after B had been learned
C22_Witness ==
    /\ lastEvent = "markLearned(A) markLearned(A)"
    /\ progress.learnedSigns = << <<"B">>, <<"A">> >>

\* C24: addXP is additive: addXP(50) twice, both before the next render,
\* gives the same XP as addXP(100) once, and no other field changes.
C24_AddXPAdditive ==
    [][ lastEvent' \in {"addXP(50) addXP(50)", "addXP(100)"}
            => progress' = [progress EXCEPT !.xp = progress.xp + 100] ]_vars

\* addXP(50) was called twice in one batch on a record that had XP already
C24_Witness ==
    /\ lastEvent = "addXP(50) addXP(50)"
    /\ progress.xp = 150

\* C23: XP is never negative and no event lowers it.
C23_XPNeverDecreases ==
    [][ progress'.xp >= 0 /\ progress'.xp >= progress.xp ]_vars

\* the user moved to the next lesson with XP earned
C23_Witness ==
    /\ lastEvent = "Next"
    /\ progress.xp >= XP_REWARD

\* C25: captureFrame gives null whenever there is no active video source
\* (stream not acquired yet, acquisition failed, component not mounted), so
\* no analysis is submitted without a live frame; it gives an encoded image
\* only when a video source is active.
C25_NoFrameWithoutStream ==
    [][ lastEvent' = "Capture"
            => /\ ~heldStream => getScreenshot = "null"
               /\ AnalysisStarted => heldStream ]_vars

\* the three critiques of the fallback for a target
CritiquePool(target) ==
    { Message("thumb tucked too tight", target),
      Message("fingers need to be straighter", EmptyText),
      Message("rotate your wrist", EmptyText) }

\* C26: on the fallback path (here: no API key) an analysis with a spoken
\* question always resolves with success = false, the templated answer and a
\* corrective-image prompt; without a spoken question it resolves with
\* success = true, or with success = false, one of the three critiques and a
\* corrective-image prompt.
C26_FallbackAnalysis ==
    [][ (lastEvent' = "AnalysisResolved" /\ ~ai) =>
          \E i \in 1..Len(analysisCalls) :
            /\ analysisCalls' = RemoveAt(analysisCalls, i)
            /\ IF analysisCalls[i].spokenQuestion # EmptyText
               THEN /\ feedback'.success = "false"
                    /\ feedback'.message
                           = Message("I heard you ask", analysisCalls[i].spokenQuestion)
                    /\ feedback'.correctionPrompt = "set"
               ELSE \/ feedback'.success = "true"
                    \/ /\ feedback'.success = "false"
                       /\ feedback'.message \in CritiquePool(analysisCalls[i].target)
                       /\ feedback'.correctionPrompt = "set" ]_vars

\* a spoken question was answered by the fallback
C26_Witness ==
    /\ lastEvent = "AnalysisResolved"
    /\ ~ai
    /\ feedback.json = "object"
    /\ feedback.message.tpl = "I heard you ask"

\* C27: the overlay's animation loop is cancelled when the camera view
\* unmounts or its analyzing/listening inputs change: at most one draw
\* callback is scheduled at any time, and none once the view is unmounted.
C27_OneAnimationLoop ==
    /\ animationFrames.scheduled <= 1
    /\ activeTab = "practice" => animationFrames.scheduled = 0

\* the classroom was left during an analysis
C27_Witness ==
    /\ lastEvent = "TabChange"
    /\ activeTab = "practice"
    /\ analysisCalls # << >>
    /\ animationFrames.scheduled = 0

\* C28: the current lesson is an element of the lesson queue, so its derived
\* position is between 1 and the queue length.
C28_CurrentLessonInQueue ==
    /\ \E i \in 1..Len(lessonQueue) : lessonQueue[i] = currentLesson
    /\ findIndex(lessonQueue, currentLesson.id) >= 0

\* the image was generated for the lesson: from the lesson's prompt, or, for
\* a lesson made of a practice session, from that session's input
ImageFor(img, lesson) ==
    \/ img.of = lesson.prompt
    \/ /\ lesson.id[1] = "practice"
       /\ img.of = Prompt("practice 16:9", lesson.target)

\* C29: whenever appState is WAITING_FOR_USER the reference image shown is
\* the one generated for the current lesson, also when several loads are in
\* flight and resolve in any order.
C29_ReferenceImageOfCurrentLesson ==
    appState = WAITING_FOR_USER => ImageFor(refImage, currentLesson)

\* C30: whenever appState is SUCCESS the current lesson's target is in the
\* learned set and the feedback is the result of analysing the current
\* lesson, also when the user navigated during the analysis.
C30_SuccessIsOfCurrentLesson ==
    appState = SUCCESS
        => /\ learned(progress, currentLesson.target)
           /\ feedback.json = "object"
           /\ feedback.message.arg = currentLesson.target

\* C31: FEEDBACK and SUCCESS are entered only from ANALYZING, appState is
\* ANALYZING exactly while an analysis call is in flight, and an analysis
\* result that resolves after the state has moved elsewhere changes neither
\* appState nor feedback.
C31_AnalysisResultOnlyWhileAnalyzing ==
    [][ /\ (appState' \in {FEEDBACK, SUCCESS} /\ appState' # appState)
               => appState = ANALYZING
        /\ appState' = ANALYZING <=> analysisCalls' # << >>
        /\ (lastEvent' \in {"AnalysisResolved", "AnalysisCaught"} /\ appState # ANALYZING)
               => UNCHANGED << appState, feedback >> ]_vars

\* C32: every successful analysis result awards exactly 50 XP, also a
\* repeated success on a lesson already learned, which leaves the learned
\* list as it is; no other step changes XP.
C32_FiftyXPPerSuccess ==
    [][ IF lastEvent' = "AnalysisResolved" /\ appState' = SUCCESS
        THEN /\ progress'.xp = progress.xp + 50
             /\ \E i \in 1..Len(analysisCalls) :
                  /\ analysisCalls' = RemoveAt(analysisCalls, i)
                  /\ learned(progress', analysisCalls[i].target)
                  /\ learned(progress, analysisCalls[i].target)
                         => progress'.learnedSigns = progress.learnedSigns
        ELSE progress'.xp = progress.xp ]_vars

\* a second success on the same lesson, submitted by the auto-check timer
\* while in SUCCESS
C32_Witness ==
    /\ lastEvent = "AnalysisResolved"
    /\ appState = SUCCESS
    /\ isAutoMode
    /\ progress.xp = 100
    /\ progress.learnedSigns = << <<"A">> >>

\* C33: whenever the practice tab is active, auto-mode and the microphone
\* are off: entering the practice tab turns both off, nothing turns them on
\* there, and returning to the classroom does not turn them on.
C33_ToolsOffInPractice ==
    [][ /\ activeTab' = "practice" => ~isMicOn' /\ ~isAutoMode'
        /\ (activeTab = "practice" /\ activeTab' = "classroom")
               => ~isMicOn' /\ ~isAutoMode' ]_vars

\* the classroom was left with the microphone on and entered again
C33_Witness ==
    /\ lastEvent = "TabChange"
    /\ activeTab = "classroom"
    /\ Len(recognitions) > 0
    /\ ~isMicOn

\* C34: the lesson queue is never empty, whatever sentences are submitted
\* and whatever lessons are appended or prepended, so the modulo in Next is
\* defined.
C34_QueueNeverEmpty == Len(lessonQueue) >= 1

\* a sentence of numerals and punctuation was submitted over a one-lesson
\* queue
C34_Witness ==
    /\ lastEvent = "SentenceSubmit"
    /\ customSentence = <<"7", "!">>
    /\ Len(lessonQueue) = 1

\* the classroom's user, voice and timer events, with every gateway call
\* settling eventually: a pending promise's continuation is run by the
\* event loop once the call has settled
GatewayNext ==
    \/ ToggleMic \/ ToggleAuto \/ SentenceSubmit \/ Capture \/ AutoCheckTick
    \/ VoiceResult \/ Next_ \/ RefreshImage
    \/ ImageSettled \/ AnalysisSettled \/ LessonSettled
GatewaySpec ==
    /\ Init /\ [][GatewayNext]_vars
    /\ WF_vars(ImageSettled) /\ WF_vars(AnalysisSettled) /\ WF_vars(LessonSettled)

\* C35: when every gateway call settles, every GeneratingReference is
\* eventually followed by WaitingForUser and every Analyzing by Success,
\* Feedback or WaitingForUser.
C35_BusyStatesEnd ==
    /\ (appState = GENERATING_REF) ~> (appState = WAITING_FOR_USER)
    /\ (appState = ANALYZING) ~> (appState \in {SUCCESS, FEEDBACK, WAITING_FOR_USER})

\* the same, over the behaviours in which no generateReferenceImage call
\* rejects
C35_BusyStatesEndUnlessRejected ==
    [](lastEvent # "ImageRejected") => C35_BusyStatesEnd

\* what is typed into the practice input before Enter
PracticeSentences == { <<"h", "i">>, <<"y", "o">>, <<" ">> }

\* a sentence is typed into the practice input and Enter is pressed; unlike
\* the Generate button, the key handler is not disabled while a request is
\* pending
PracticeEnter ==
    /\ activeTab = "practice"
    /\ \E text \in PracticeSentences :
           UserEvent("PracticeEnter",
                     handlePracticeGenerate([Render EXCEPT !.practiceInput = text], text))

\* the practice tab: sentences entered, requests settling
PracticeNext == TabChange \/ PracticeEnter \/ ImageSettled
PracticeSpec == Init /\ [][PracticeNext]_vars

\* a practice image request is in flight
PracticePending(calls) ==
    \E i \in 1..Len(calls) : calls[i].from = "handlePracticeGenerate"

\* what generateReferenceImage can resolve with for the sentence in the
\* practice input
ImagesOfPracticeInput ==
    { generateReferenceImage(ai, Prompt("practice 16:9", practiceInput), response).value :
          response \in ImageResponses }

\* the generating flag is true exactly while a practice request is in flight
C36_FlagWhilePending ==
    [][isPracticeGenerating' <=> PracticePending(imageCalls')]_vars

\* once the last pending practice request has resolved, the image shown is
\* one for the sentence entered last (the practice input, when not blank)
C36_ImageOfLatestPrompt ==
    [][(/\ lastEvent' = "ImageResolved"
        /\ PracticePending(imageCalls) /\ ~PracticePending(imageCalls')
        /\ truthyText(trim(practiceInput)))
           => practiceImage' \in ImagesOfPracticeInput]_vars

\* C36: the generating flag is true exactly while a practice image request
\* is in flight, and the practice image shown once all requests have resolved
\* is the one for the sentence entered last, also when Enter is pressed
\* again while a request is pending.
C36_PracticeGeneration == C36_FlagWhilePending /\ C36_ImageOfLatestPrompt

====
